---- MODULE Spec2Model ----
(***************************************************************************)
(* Arbitrary signal generator (module asg): the burst/periodic state       *)
(* machine, the trigger arbitration, the fixed point read pointer and the  *)
(* valid/trigger output pipeline, one step of the model per clock edge of  *)
(* sto.clk.  Registers are the variables written by the always_ff blocks;  *)
(* the ports (ctl_rst, trg_i, cfg_xxx) are variables holding the value the *)
(* port carries during the current clock cycle.  The sample table          *)
(* (buf_mem, buf_rdata, buf_raddr), the system bus and sts_rdt (written,   *)
(* never read) are not modelled.                                           *)
(*                                                                         *)
(* Streaming settings (class CStreamSettings, default build: neither Z20   *)
(* nor Z20_250_12 defined): the stored values, their "has been set" flags, *)
(* the setters, reset(), isSetted(), writeToFile() and readFromFile(), one *)
(* step of the model per call.  The two parts share no state.              *)
(***************************************************************************)
EXTENDS Integers, FiniteSets, Sequences, TLC

\* ---------------------------------------------------------------- sizes
\* module parameters, scaled down from the defaults CWM = 14, CWF = 16
CWM == 4
CWF == 1
\* number of trigger lines (parameter TN, at its default)
TN == 1
\* width of cnt_bln and cfg_bln, scaled down from 32 (the model checker's
\* integers end at 2^31 - 1)
BLN_W == 4
\* width of cnt_bnm and cfg_bnm, scaled down from 16
BNM_W == 2
\* largest values of cfg_bln and cfg_bnm in the main specification
MaxBln == 2
MaxBnm == 1
\* number of consecutive pointer steps followed by the step history
MaxSteps == 3
\* how far from either end of the range the step size is drawn in SpecStep
StpEdge == 15

CW == CWM + CWF
PtrRange == 2 ^ CW
PtrVals == 0 .. (PtrRange - 1)
Lines == 1 .. TN

\* ------------------------------------------------------------ variables
VARIABLES
  \* registers
  sts_run, sts_vld, sto_vld, trg_o, cnt_bln, cnt_bnm, ptr_cur,
  \* ports: control, trigger, configuration
  ctl_rst, trg_i, cfg_trg, cfg_siz, cfg_stp, cfg_off,
  cfg_ben, cfg_inf, cfg_bdl, cfg_bln, cfg_bnm,
  \* history (not part of the design): see the History section
  h_clean, h_per, h_age, h_done, h_base, h_n,
  \* CStreamSettings: m_B[f] is the flag m_B<f>, m_val[f] the value m_<f>;
  \* ret is what the last call returned ("none" for a void call)
  m_B, m_val, ret,
  \* history (not part of the class): setters called since the last reset()
  h_set

regs == <<sts_run, sts_vld, sto_vld, trg_o, cnt_bln, cnt_bnm, ptr_cur>>
ins  == <<ctl_rst, trg_i>>
cfg  == <<cfg_trg, cfg_siz, cfg_stp, cfg_off, cfg_ben, cfg_inf, cfg_bdl, cfg_bln, cfg_bnm>>
hist == <<h_clean, h_per, h_age, h_done, h_base, h_n>>
stg  == <<m_B, m_val, ret, h_set>>
vars == <<regs, ins, cfg, hist, stg>>

Min(a, b) == IF a < b THEN a ELSE b

\* -------------------------------------------------- combinational logic
\* mutant: the trigger mask left out of the raw trigger
trg_of_nomask(lines, mask) == lines # {}

\* assign trg = |(trg_i & cfg_trg); a TN bit vector is the set of its set bits
trg_of(lines, mask) == (lines \cap mask) # {}
trg == trg_of(trg_i, cfg_trg)

\* assign sts_rpt = sts_run & ~|cnt_bln;
sts_rpt == sts_run /\ cnt_bln = 0

\* mutant: a raw trigger also restarts a running engine
sts_trg_of_preempt(t) == IF sts_run THEN (sts_rpt \/ t) ELSE t

\* assign sts_trg = sts_run ? sts_rpt : trg;   (t is the value of trg)
sts_trg_of(t) == IF sts_run THEN sts_rpt ELSE t
sts_trg == sts_trg_of(trg)

\* buf_raddr <= ptr_cur[CWF+:CWM]: the integer bits of a pointer value
raddr(p) == (p \div (2 ^ CWF)) % (2 ^ CWM)

\* assign ptr_nxt = ptr_cur + (cfg_stp + 1);           CW+1 bits
ptr_nxt_of(p, stp) == (p + (stp + 1)) % (2 ^ (CW + 1))
\* mutant: the table length taken to be cfg_siz instead of cfg_siz + 1
ptr_nxt_sub_of_short(p, stp, siz) == (ptr_nxt_of(p, stp) - siz) % (2 ^ (CW + 1))

\* assign ptr_nxt_sub = ptr_nxt - (cfg_siz + 1);       CW+1 bits
ptr_nxt_sub_of(p, stp, siz) == (ptr_nxt_of(p, stp) - (siz + 1)) % (2 ^ (CW + 1))
\* mutant: the sign taken one bit too low, ptr_nxt_sub[CWM+CWF-1]
ptr_nxt_sub_neg_of_low(p, stp, siz) ==
  (ptr_nxt_sub_of(p, stp, siz) \div (2 ^ (CW - 1))) % 2 = 1

\* assign ptr_nxt_sub_neg = ptr_nxt_sub[CWM+CWF];
ptr_nxt_sub_neg_of(p, stp, siz) == ptr_nxt_sub_of(p, stp, siz) \div (2 ^ CW) = 1
\* ~ptr_nxt_sub_neg ? ptr_nxt_sub : ptr_nxt, assigned to the CW bit ptr_cur
ptr_step(p, stp, siz) ==
  (IF ~ptr_nxt_sub_neg_of(p, stp, siz)
     THEN ptr_nxt_sub_of(p, stp, siz)
     ELSE ptr_nxt_of(p, stp)) % (2 ^ CW)

ptr_nxt == ptr_nxt_of(ptr_cur, cfg_stp)
ptr_nxt_sub == ptr_nxt_sub_of(ptr_cur, cfg_stp, cfg_siz)
ptr_nxt_sub_neg == ptr_nxt_sub_neg_of(ptr_cur, cfg_stp, cfg_siz)

\* ------------------------------------------- register next-state values
\* st is the value of sts_trg in the current cycle

\* mutant: the repeat test made on the decremented counter
nxt_sts_run_early(st) ==
  IF ctl_rst THEN FALSE
  ELSE IF cfg_ben
    THEN (IF st THEN (IF sts_run THEN cnt_bnm > 1 ELSE TRUE) ELSE sts_run)
    ELSE (IF st THEN TRUE ELSE sts_run)

\* state machine, sts_run
nxt_sts_run(st) ==
  IF ctl_rst THEN FALSE
  ELSE IF cfg_ben
    THEN (IF st THEN (IF sts_run THEN cnt_bnm # 0 ELSE TRUE) ELSE sts_run)
    ELSE (IF st THEN TRUE ELSE sts_run)

\* mutant: the arming start event keeps cnt_bnm instead of loading cfg_bnm
nxt_cnt_bnm_stale(st) ==
  IF ctl_rst THEN 0
  ELSE IF cfg_ben /\ st /\ sts_run
    THEN (cnt_bnm - (IF cfg_inf THEN 0 ELSE 1)) % (2 ^ BNM_W)
    ELSE cnt_bnm

\* mutant: cfg_bnm loaded at every start event, period restarts included
nxt_cnt_bnm_reload(st) ==
  IF ctl_rst THEN 0
  ELSE IF cfg_ben /\ st THEN cfg_bnm
  ELSE cnt_bnm

\* state machine, cnt_bnm: cnt_bnm - !cfg_inf in BNM_W bits
nxt_cnt_bnm(st) ==
  IF ctl_rst THEN 0
  ELSE IF cfg_ben /\ st
    THEN (IF sts_run
            THEN (cnt_bnm - (IF cfg_inf THEN 0 ELSE 1)) % (2 ^ BNM_W)
            ELSE cfg_bnm)
    ELSE cnt_bnm

\* mutant: the period counter reloaded one too high
nxt_cnt_bln_long(st) ==
  IF ctl_rst THEN 0
  ELSE IF cfg_ben
    THEN (IF st THEN (cfg_bln + 1) % (2 ^ BLN_W)
                ELSE (cnt_bln - (IF sts_run THEN 1 ELSE 0)) % (2 ^ BLN_W))
    ELSE cnt_bln

\* state machine, cnt_bln: cnt_bln - sts_run in BLN_W bits
nxt_cnt_bln(st) ==
  IF ctl_rst THEN 0
  ELSE IF cfg_ben
    THEN (IF st THEN cfg_bln
                ELSE (cnt_bln - (IF sts_run THEN 1 ELSE 0)) % (2 ^ BLN_W))
    ELSE cnt_bln

\* read pointer logic
nxt_ptr_cur(st) ==
  IF ctl_rst THEN 0
  ELSE IF st THEN cfg_off
  ELSE IF sts_run THEN ptr_step(ptr_cur, cfg_stp, cfg_siz)
  ELSE ptr_cur

\* valid signal used to enable memory read access
nxt_sts_vld == IF ctl_rst THEN FALSE ELSE sts_run

\* mutant: the synchronous clear of sto.vld left out
nxt_sto_vld_noclear == sts_vld

\* mutant: sto.vld taken from sts_run, one register stage short
nxt_sto_vld_direct == IF ctl_rst THEN FALSE ELSE sts_run

\* output valid
nxt_sto_vld == IF ctl_rst THEN FALSE ELSE sts_vld

\* trigger output
nxt_trg_o == sts_trg

\* -------------------------------------------------------------- history
\* A run is the time from an arming start event (sts_run rises) until
\* sts_run falls.  h_clean: the engine is running and since its arming start
\* event no configuration port changed and ctl_rst was never asserted.
\* h_per: start events of the run that left sts_run true (the arming one
\* included).  h_age: clock edges since the last start event.  All three
\* are 0/FALSE outside a clean run; h_per and h_age are capped above the
\* values the burst configuration allows a clean run to reach.
\* h_done: while idle, the last run was a clean finite burst run that ended
\* at a period expiry and no configuration port changed and ctl_rst was not
\* asserted since; while running, the run was armed from such an idle time.
HistTick ==
  LET st    == sts_trg
      arm   == ~ctl_rst /\ ~sts_run /\ st
      clean == nxt_sts_run(st) /\ ~ctl_rst /\ (arm \/ h_clean)
      fin   == /\ ~ctl_rst /\ sts_run /\ st /\ ~nxt_sts_run(st)
               /\ h_clean /\ cfg_ben /\ ~cfg_inf
  IN  /\ h_clean' = clean
      /\ h_done' = IF ctl_rst THEN FALSE
                   ELSE IF fin THEN TRUE
                   ELSE IF sts_run THEN (h_done /\ clean)
                   ELSE h_done
      /\ h_per' = IF ~clean THEN 0
                  ELSE IF arm THEN 1
                  ELSE IF st THEN Min(h_per + 1, cfg_bnm + 3)
                  ELSE h_per
      /\ h_age' = IF ~clean THEN 0
                  ELSE IF st THEN 0
                  ELSE Min(h_age + 1, cfg_bln + 2)

HistCfg ==
  /\ h_clean' = FALSE /\ h_per' = 0 /\ h_age' = 0 /\ h_done' = FALSE

\* h_base, h_n: ptr_cur held h_base when the last h_n clock edges began;
\* followed in SpecStep only, where every clock edge is a pointer step.
HistStep ==
  /\ h_n' = h_n + 1
  /\ h_base' = h_base

\* -------------------------------------------------------------- actions
\* one rising edge of sto.clk with sto.rstn high: every always_ff block
ClockEdge ==
  /\ sts_run' = nxt_sts_run(sts_trg)
  /\ cnt_bnm' = nxt_cnt_bnm(sts_trg)
  /\ cnt_bln' = nxt_cnt_bln(sts_trg)
  /\ ptr_cur' = nxt_ptr_cur(sts_trg)
  /\ sts_vld' = nxt_sts_vld
  /\ sto_vld' = nxt_sto_vld
  /\ trg_o'   = nxt_trg_o

\* a clock edge after which the control and trigger ports carry new values
Tick ==
  /\ ClockEdge
  /\ HistTick
  /\ ctl_rst' \in BOOLEAN
  /\ trg_i' \in SUBSET Lines
  /\ UNCHANGED <<cfg, h_base, h_n, stg>>

\* a clock edge with every port held, at most MaxSteps of them in a row
StepTick ==
  /\ h_n < MaxSteps
  /\ ClockEdge
  /\ HistStep
  /\ UNCHANGED <<ins, cfg, h_clean, h_per, h_age, h_done, stg>>

\* configuration values of the main specification
CfgSizVals == {10 * (2 ^ CWF) - 1}
CfgStpVals == {(2 ^ CWF) - 1}
CfgOffVals == {0, 2 ^ CWF}
CfgBdlVals == {0, 1}

\* the controller rewrites one configuration port between two clock edges
SetTrg ==
  /\ \E v \in SUBSET Lines : v # cfg_trg /\ cfg_trg' = v
  /\ UNCHANGED <<regs, ins, cfg_siz, cfg_stp, cfg_off, cfg_ben, cfg_inf, cfg_bdl, cfg_bln, cfg_bnm, h_base, h_n, stg>>
  /\ HistCfg

SetOff ==
  /\ \E v \in CfgOffVals : v # cfg_off /\ cfg_off' = v
  /\ UNCHANGED <<regs, ins, cfg_trg, cfg_siz, cfg_stp, cfg_ben, cfg_inf, cfg_bdl, cfg_bln, cfg_bnm, h_base, h_n, stg>>
  /\ HistCfg

SetBen ==
  /\ cfg_ben' = ~cfg_ben
  /\ UNCHANGED <<regs, ins, cfg_trg, cfg_siz, cfg_stp, cfg_off, cfg_inf, cfg_bdl, cfg_bln, cfg_bnm, h_base, h_n, stg>>
  /\ HistCfg

SetInf ==
  /\ cfg_inf' = ~cfg_inf
  /\ UNCHANGED <<regs, ins, cfg_trg, cfg_siz, cfg_stp, cfg_off, cfg_ben, cfg_bdl, cfg_bln, cfg_bnm, h_base, h_n, stg>>
  /\ HistCfg

SetBdl ==
  /\ \E v \in CfgBdlVals : v # cfg_bdl /\ cfg_bdl' = v
  /\ UNCHANGED <<regs, ins, cfg_trg, cfg_siz, cfg_stp, cfg_off, cfg_ben, cfg_inf, cfg_bln, cfg_bnm, h_base, h_n, stg>>
  /\ HistCfg

SetBln ==
  /\ \E v \in 0 .. MaxBln : v # cfg_bln /\ cfg_bln' = v
  /\ UNCHANGED <<regs, ins, cfg_trg, cfg_siz, cfg_stp, cfg_off, cfg_ben, cfg_inf, cfg_bdl, cfg_bnm, h_base, h_n, stg>>
  /\ HistCfg

SetBnm ==
  /\ \E v \in 0 .. MaxBnm : v # cfg_bnm /\ cfg_bnm' = v
  /\ UNCHANGED <<regs, ins, cfg_trg, cfg_siz, cfg_stp, cfg_off, cfg_ben, cfg_inf, cfg_bdl, cfg_bln, h_base, h_n, stg>>
  /\ HistCfg

\* -------------------------------------------------------- specification
\* the registers after the asynchronous-style reset branch (~sto.rstn)
InitRegs ==
  /\ sts_run = FALSE /\ sts_vld = FALSE /\ sto_vld = FALSE /\ trg_o = FALSE
  /\ cnt_bln = 0 /\ cnt_bnm = 0 /\ ptr_cur = 0

InitHist ==
  /\ h_clean = FALSE /\ h_per = 0 /\ h_age = 0 /\ h_done = FALSE
  /\ h_n = 0 /\ h_base = ptr_cur

\* ------------------------------------------------------ CStreamSettings
\* enum values used below
TCP == 0
UDP == 1
WAV == 0
RAW == 1
CH1 == 1
BIT_8 == 1
A_1_1 == 1

\* the members m_<f> / m_B<f> of the default build
Fields == {"host", "port", "protocol", "samples", "format", "type",
           "channels", "res", "decimation", "attenuator", "calib"}

\* CStreamSettings::CStreamSettings(): the values before reset() is called;
\* m_samples = -1 is kept as the int32_t that getSamples() returns
CtorVals ==
  [f \in Fields |->
     CASE f = "host" -> ""
       [] f = "port" -> ""
       [] f = "protocol" -> TCP
       [] f = "samples" -> 0 - 1
       [] f = "format" -> WAV
       [] f = "type" -> RAW
       [] f = "channels" -> CH1
       [] f = "res" -> BIT_8
       [] f = "decimation" -> 1
       [] f = "attenuator" -> A_1_1
       [] f = "calib" -> FALSE]

\* the arguments the setters are called with: values other than the
\* constructor's for the strings, the protocol, the sample count and the
\* calibration flag, the constructor's value again for the rest
ArgVals(f) ==
  CASE f = "host" -> {"127.0.0.1"}
    [] f = "port" -> {"8900"}
    [] f = "protocol" -> {TCP, UDP}
    [] f = "samples" -> {4096}
    [] f = "format" -> {WAV}
    [] f = "type" -> {RAW}
    [] f = "channels" -> {CH1}
    [] f = "res" -> {BIT_8}
    [] f = "decimation" -> {1}
    [] f = "attenuator" -> {A_1_1}
    [] f = "calib" -> {TRUE}

\* the flags as reset() leaves them
ResetFlags == [f \in Fields |-> FALSE]

\* mutant: m_Bcalib left out of the conjunction
isSetted_nocalib == \A f \in Fields \ {"calib"} : m_B[f]

\* CStreamSettings::isSetted()
isSetted == \A f \in Fields : m_B[f]

\* the object after construction
InitStg ==
  /\ m_val = CtorVals /\ m_B = ResetFlags /\ ret = "none" /\ h_set = {}

\* CStreamSettings::reset()
reset ==
  /\ m_B' = ResetFlags
  /\ m_val' = m_val
  /\ ret' = "none"
  /\ h_set' = {}
  /\ UNCHANGED <<regs, ins, cfg, hist>>

\* the body shared by the setters: m_<f> = _value; m_B<f> = true;
Setter(f) ==
  /\ \E v \in ArgVals(f) : m_val' = [m_val EXCEPT ![f] = v]
  /\ m_B' = [m_B EXCEPT ![f] = TRUE]
  /\ ret' = "none"
  /\ h_set' = h_set \cup {f}
  /\ UNCHANGED <<regs, ins, cfg, hist>>

setHost == Setter("host")
setPort == Setter("port")
setProtocol == Setter("protocol")
setSamples == Setter("samples")
setFormat == Setter("format")
setType == Setter("type")
setChannels == Setter("channels")
setResolution == Setter("res")
setDecimation == Setter("decimation")
setAttenuator == Setter("attenuator")
setCalibration == Setter("calib")

\* CStreamSettings::writeToFile(): false without touching the file unless
\* isSetted(); otherwise true, or false when the file cannot be opened
writeToFile ==
  /\ IF isSetted THEN ret' \in {"true", "false"} ELSE ret' = "false"
  /\ UNCHANGED <<m_B, m_val, h_set>>
  /\ UNCHANGED <<regs, ins, cfg, hist>>

\* the member sets of the files read: every member, all but one, none
FileMembers == {Fields} \cup {Fields \ {f} : f \in Fields} \cup {{}}

\* CStreamSettings::readFromFile(): false when the file cannot be opened;
\* else reset(), then false when the text does not parse, else the setter
\* of every member the file has, and isSetted() is returned
readFromFile ==
  /\ \/ /\ ret' = "false"
        /\ UNCHANGED <<m_B, m_val, h_set>>
     \/ /\ ret' = "false"
        /\ m_B' = ResetFlags /\ m_val' = m_val /\ h_set' = {}
     \/ \E ms \in FileMembers, pv \in ArgVals("protocol") :
          /\ m_B' = [f \in Fields |-> f \in ms]
          /\ m_val' = [f \in Fields |->
                         IF f \notin ms THEN m_val[f]
                         ELSE IF f = "protocol" THEN pv
                         ELSE CHOOSE v \in ArgVals(f) : TRUE]
          /\ h_set' = ms
          /\ ret' = IF \A f \in Fields : f \in ms THEN "true" ELSE "false"
  /\ UNCHANGED <<regs, ins, cfg, hist>>

Init ==
  /\ InitRegs /\ InitStg
  /\ ctl_rst \in BOOLEAN /\ trg_i \in SUBSET Lines
  /\ cfg_trg \in SUBSET Lines
  /\ cfg_siz \in CfgSizVals /\ cfg_stp \in CfgStpVals /\ cfg_off \in CfgOffVals
  /\ cfg_ben \in BOOLEAN /\ cfg_inf \in BOOLEAN
  /\ cfg_bdl \in CfgBdlVals /\ cfg_bln \in 0 .. MaxBln /\ cfg_bnm \in 0 .. MaxBnm
  /\ InitHist

Next ==
  \/ Tick
  \/ SetTrg
  \/ SetOff
  \/ SetBen
  \/ SetInf
  \/ SetBdl
  \/ SetBln
  \/ SetBnm

Spec == Init /\ [][Next]_vars

\* ------------------------------------------- the burst example (7, 3, 2)
\* cfg_bdl = 3, cfg_bln = 7, cfg_bnm = 2, finite burst, every line enabled
InitBurstEx ==
  /\ InitRegs /\ InitStg
  /\ ctl_rst \in BOOLEAN /\ trg_i \in SUBSET Lines
  /\ cfg_trg = Lines
  /\ cfg_siz \in CfgSizVals /\ cfg_stp \in CfgStpVals /\ cfg_off \in CfgOffVals
  /\ cfg_ben = TRUE /\ cfg_inf = FALSE
  /\ cfg_bdl = 3 /\ cfg_bln = 7 /\ cfg_bnm = 2
  /\ InitHist

NextBurstEx == Tick

SpecBurstEx == InitBurstEx /\ [][NextBurstEx]_vars

\* ------------------------------------------------- the pointer step alone
\* The engine runs in periodic mode with a non-zero cnt_bln (the value a
\* finished burst leaves behind), so that no start event fires and every
\* clock edge is one pointer step; ptr_cur (loaded from cfg_off by the
\* start event), cfg_siz and cfg_stp range over the CW bit values.
StepStpVals == {v \in PtrVals : v <= StpEdge \/ v >= PtrRange - 1 - StpEdge}

InitStep ==
  /\ sts_run = TRUE /\ sts_vld = TRUE /\ sto_vld = TRUE /\ trg_o = FALSE
  /\ cnt_bln = 1 /\ cnt_bnm = (2 ^ BNM_W) - 1
  /\ ptr_cur \in PtrVals
  /\ ctl_rst = FALSE /\ trg_i = {} /\ cfg_trg = Lines
  /\ cfg_siz \in PtrVals /\ cfg_stp \in StepStpVals /\ cfg_off = 0
  /\ cfg_ben = FALSE /\ cfg_inf = FALSE
  /\ cfg_bdl = 0 /\ cfg_bln = 1 /\ cfg_bnm = 0
  /\ InitHist /\ InitStg

NextStep == StepTick

SpecStep == InitStep /\ [][NextStep]_vars

\* ------------------------------------------- the pointer inside a run
\* Runs armed through the trigger with every port but ctl_rst and trg_i
\* held: cfg_siz ranges over the CW bit values, cfg_stp over the values
\* next to 0, next to cfg_siz and the largest one, cfg_off over 0, cfg_siz
\* and cfg_siz + 1, so that both sides of cfg_stp <= cfg_siz and of
\* cfg_off <= cfg_siz occur.  The engine starts idle, either with the
\* registers of the reset branch or with those a finished burst of the
\* same configuration leaves behind (cnt_bln = cfg_bln, cnt_bnm wrapped
\* below zero, ptr_cur = cfg_off); with the latter a periodic run steps
\* the pointer on every edge.
NearVals(z) == {v \in PtrVals : v <= 1 \/ (z - 1 <= v /\ v <= z + 1) \/ v = PtrRange - 1}
OffVals(z) == {v \in PtrVals : v = 0 \/ v = z \/ v = z + 1}

InitPhase ==
  /\ sts_run = FALSE /\ sts_vld = FALSE /\ sto_vld = FALSE /\ trg_o = FALSE
  /\ ctl_rst \in BOOLEAN /\ trg_i \in SUBSET Lines
  /\ cfg_trg = Lines
  /\ cfg_siz \in PtrVals /\ cfg_stp \in NearVals(cfg_siz) /\ cfg_off \in OffVals(cfg_siz)
  /\ cfg_ben \in BOOLEAN /\ cfg_inf = FALSE
  /\ cfg_bdl = 0 /\ cfg_bln = MaxBln /\ cfg_bnm = MaxBnm
  /\ \/ cnt_bln = 0 /\ cnt_bnm = 0 /\ ptr_cur = 0
     \/ cnt_bln = cfg_bln /\ cnt_bnm = (2 ^ BNM_W) - 1 /\ ptr_cur = cfg_off
  /\ InitHist /\ InitStg

NextPhase == Tick

SpecPhase == InitPhase /\ [][NextPhase]_vars

\* ------------------------------------------- the settings object alone
\* a constructed CStreamSettings and every sequence of calls on it; the
\* signal generator is held in reset with its ports at rest
InitSettings ==
  /\ InitStg
  /\ InitRegs /\ InitHist
  /\ ctl_rst = TRUE /\ trg_i = {} /\ cfg_trg = {}
  /\ cfg_siz = 0 /\ cfg_stp = 0 /\ cfg_off = 0
  /\ cfg_ben = FALSE /\ cfg_inf = FALSE
  /\ cfg_bdl = 0 /\ cfg_bln = 0 /\ cfg_bnm = 0

NextSettings ==
  \/ reset
  \/ setHost
  \/ setPort
  \/ setProtocol
  \/ setSamples
  \/ setFormat
  \/ setType
  \/ setChannels
  \/ setResolution
  \/ setDecimation
  \/ setAttenuator
  \/ setCalibration
  \/ writeToFile
  \/ readFromFile

SpecSettings == InitSettings /\ [][NextSettings]_vars

\* =============================================================== claims
\* the registers claims C3 and C9 speak of, one clock edge ahead
NextRegs(st) == <<nxt_ptr_cur(st), nxt_cnt_bln(st), nxt_cnt_bnm(st), nxt_sts_run(st)>>

\* the periodic example of C2 in M.F fixed point: a table of 10 samples,
\* a stride of one sample per clock edge, phase 0
ExSiz == 10 * (2 ^ CWF) - 1
ExStp == (2 ^ CWF) - 1

\* C1: periodic mode never self-expires: in a run armed with burst mode
\* disabled, configuration constant and no reset, no start event fires after
\* the arming one (ptr_cur is not reloaded from cfg_off) and sts_run stays
\* true.
C1_PeriodicNeverRestarts ==
  [][(Tick /\ h_clean /\ ~cfg_ben /\ ~ctl_rst) => (~sts_trg /\ sts_run')]_vars

\* C2: periodic mode, table of 10 samples, unit stride, phase 0, one arming
\* trigger, no reset: on every clock edge of the run the read address moves
\* to the next of 0,1,...,9,0,1,...
C2_PeriodicExample ==
  [][(Tick /\ h_clean /\ ~cfg_ben /\ ~ctl_rst
        /\ cfg_siz = ExSiz /\ cfg_stp = ExStp /\ cfg_off = 0)
       => raddr(ptr_cur') = (raddr(ptr_cur) + 1) % 10]_vars

\* C3: burst repeat exactness: in a finite burst run with constant
\* configuration and no reset, never more than cfg_bnm + 1 start events leave
\* sts_run true; sts_run stays true on every clock edge without start event,
\* and at a period expiry it stays true unless cfg_bnm + 1 periods have been
\* started, in which case it falls; raw triggers during the run change none
\* of this.
C3_BurstRepeatExact ==
  [][(Tick /\ h_clean /\ cfg_ben /\ ~cfg_inf /\ ~ctl_rst)
       => /\ h_per <= cfg_bnm + 1
          /\ sts_trg => (sts_run' <=> h_per < cfg_bnm + 1)
          /\ ~sts_trg => sts_run'
          /\ \A l \in SUBSET Lines :
               nxt_sts_run(sts_trg_of(trg_of(l, cfg_trg))) = sts_run']_vars

\* the last period of the longest finite burst expires while a raw trigger
\* is present
C3_Witness ==
  /\ h_clean /\ cfg_ben /\ ~cfg_inf /\ ~ctl_rst
  /\ cfg_bnm = MaxBnm /\ h_per = cfg_bnm + 1
  /\ sts_rpt /\ trg /\ cfg_bln = MaxBln

\* C4 (as stated): cfg_bdl = 3, cfg_bln = 7, cfg_bnm = 2, single trigger:
\* exactly three periods play and consecutive start events are 7 clock
\* edges apart.
C4_BurstExample7 ==
  [][(Tick /\ h_clean /\ ~ctl_rst)
       => /\ h_per <= 3
          /\ sts_trg <=> (h_age + 1 = 7)
          /\ sts_trg => (sts_run' <=> h_per < 3)]_vars

\* C4 (amended): exactly three periods play and consecutive start events
\* are 8 = cfg_bln + 1 clock edges apart.
C4_BurstExample8 ==
  [][(Tick /\ h_clean /\ ~ctl_rst)
       => /\ h_per <= 3
          /\ sts_trg <=> (h_age + 1 = 8)
          /\ sts_trg => (sts_run' <=> h_per < 3)]_vars

\* the third period of the example expires
C4_Witness ==
  h_clean /\ ~ctl_rst /\ h_per = 3 /\ h_age = 7 /\ sts_trg /\ cnt_bnm = 0

\* C5: burst idle hold: in a burst run the read address advances during the
\* first cfg_bdl + 1 clock cycles of a period only, and holds from then to
\* the next start event.  (Stated with one cycle of slack: the address
\* holds on every edge from the end of cycle cfg_bdl + 2 on.)
C5_BurstIdleHold ==
  [][(Tick /\ h_clean /\ cfg_ben /\ ~ctl_rst /\ ~sts_trg /\ h_age >= cfg_bdl + 1)
       => raddr(ptr_cur') = raddr(ptr_cur)]_vars

\* C6: infinite repeat: burst mode with cfg_inf set: whenever a period
\* expires while running, sts_run stays true and cnt_bnm is unchanged, for
\* every repeat count including 0.
C6_InfiniteRepeat ==
  [][(Tick /\ ~ctl_rst /\ cfg_ben /\ cfg_inf /\ sts_run /\ cnt_bln = 0)
       => (sts_run' /\ cnt_bnm' = cnt_bnm)]_vars

\* C7 (as stated): for every ptr_cur, cfg_stp, cfg_siz with
\* ptr_cur < cfg_siz + 1, one pointer step leaves the read address in
\* [0, size] (read in the way easiest to meet: not above cfg_siz itself);
\* and with cfg_siz + 1 the full range the step is plain unsigned overflow.
C7_WraparoundAnyStep ==
  [][(StepTick /\ ptr_cur < cfg_siz + 1)
       => /\ raddr(ptr_cur') <= cfg_siz
          /\ (cfg_siz + 1 = PtrRange)
               => ptr_cur' = (ptr_cur + cfg_stp + 1) % PtrRange]_vars

\* C7 (amended): the same for cfg_stp <= cfg_siz: then the new ptr_cur is
\* at most cfg_siz, so the new read address is at most the last table
\* index raddr(cfg_siz).
C7_Wraparound ==
  [][(StepTick /\ ptr_cur < cfg_siz + 1 /\ cfg_stp <= cfg_siz)
       => /\ ptr_cur' <= cfg_siz
          /\ raddr(ptr_cur') <= raddr(cfg_siz)
          /\ (cfg_siz + 1 = PtrRange)
               => ptr_cur' = (ptr_cur + cfg_stp + 1) % PtrRange]_vars

\* one step wrapped the pointer around a table shorter than the range
C7_Witness ==
  /\ h_n = 1 /\ h_base <= cfg_siz /\ cfg_stp <= cfg_siz
  /\ cfg_siz + 1 < PtrRange /\ cfg_stp > 0
  /\ h_base + cfg_stp + 1 > cfg_siz + 1 /\ ptr_cur < h_base

\* C8 (as stated): from any ptr_cur, h_n pointer steps with fixed cfg_stp
\* and cfg_siz advance ptr_cur by h_n * (cfg_stp + 1) modulo cfg_siz + 1.
C8_FrequencyLawAnyPhase ==
  (ptr_cur - (h_base + h_n * (cfg_stp + 1))) % (cfg_siz + 1) = 0

\* C8 (amended): from a ptr_cur <= cfg_siz and with cfg_stp <= cfg_siz,
\* after h_n pointer steps ptr_cur is exactly
\* (start + h_n * (cfg_stp + 1)) mod (cfg_siz + 1).
C8_FrequencyLaw ==
  (h_base <= cfg_siz /\ cfg_stp <= cfg_siz)
    => ptr_cur = (h_base + h_n * (cfg_stp + 1)) % (cfg_siz + 1)

\* MaxSteps steps that wrapped more than once
C8_Witness ==
  /\ h_n = MaxSteps /\ h_base <= cfg_siz /\ cfg_stp <= cfg_siz
  /\ cfg_stp > 0 /\ cfg_siz + 1 < PtrRange
  /\ h_base + h_n * (cfg_stp + 1) > 2 * (cfg_siz + 1)

\* C9: no pre-emption while running: on a clock edge taken while running
\* with the period not expired, ptr_cur, cnt_bln, cnt_bnm and sts_run get
\* the values they would get under every other value of the trigger lines
\* and of the trigger mask.
C9_NoPreemption ==
  [][(Tick /\ sts_run /\ ~sts_rpt)
       => \A l \in SUBSET Lines, m \in SUBSET Lines :
            <<ptr_cur', cnt_bln', cnt_bnm', sts_run'>>
              = NextRegs(sts_trg_of(trg_of(l, m)))]_vars

\* a masked trigger line is high in the middle of a burst period
C9_Witness ==
  sts_run /\ ~sts_rpt /\ trg /\ ~ctl_rst /\ cfg_ben /\ cnt_bln > 0

\* C10: reset priority: after a clock edge with ctl_rst asserted both valid
\* flags and sts_run are false and both burst counters are zero, in either
\* mode and whether or not a start event fired on that edge.
C10_ResetPriority ==
  [][(Tick /\ ctl_rst)
       => (~sts_vld' /\ ~sto_vld' /\ ~sts_run' /\ cnt_bln' = 0 /\ cnt_bnm' = 0)]_vars

\* reset is asserted on the edge of a period expiry that would restart the
\* burst, with both valid flags up
C10_Witness ==
  /\ ctl_rst /\ sts_run /\ sts_trg /\ cfg_ben /\ cnt_bnm > 0
  /\ sts_vld /\ sto_vld /\ cfg_bln > 0

\* C11: after a clock edge with ctl_rst asserted trg_o is low, even if a
\* start event was computed on that edge.
C11_ResetClearsTrgOut ==
  [][(Tick /\ ctl_rst) => ~trg_o']_vars

\* C12: trg_o mirrors the accepted start events one clock edge later: after
\* a clock edge trg_o is high if and only if a start event fired on that
\* edge and was not cancelled by ctl_rst (an arming trigger or a period
\* expiry).
C12_TrgOutMirrorsStart ==
  [][Tick => (trg_o' <=> (sts_trg /\ ~ctl_rst))]_vars

\* C13 (as stated): sto.vld lags sts_run by exactly one clock edge: after an
\* edge without reset sto.vld holds the value sts_run had before it.
C13_ValidLagsOne ==
  [][(Tick /\ ~ctl_rst) => (sto_vld' <=> sts_run)]_vars

\* C13 (amended): sts_vld lags sts_run by exactly one clock edge and sto.vld
\* lags sts_vld by exactly one more: after an edge without reset sts_vld
\* holds the value sts_run had before it and sto.vld the value sts_vld had,
\* so sto.vld follows sts_run two edges behind.
C13_ValidLagsTwo ==
  [][(Tick /\ ~ctl_rst)
       => /\ sts_vld' <=> sts_run
          /\ sto_vld' <=> sts_vld]_vars

\* the second cycle of a run: sts_run and sts_vld are up, sto.vld is not yet
C13_Witness ==
  sts_run /\ sts_vld /\ ~sto_vld /\ ~ctl_rst

\* C14: arming: on a clock edge with the engine not running and ctl_rst not
\* asserted, a start event fires if and only if some trigger line is both
\* asserted and selected by the mask; sts_run rises exactly then, and
\* ptr_cur is loaded with cfg_off; with an all-zero mask sts_run stays false.
C14_Arming ==
  [][(Tick /\ ~sts_run /\ ~ctl_rst)
       => LET hit == \E l \in Lines : l \in trg_i /\ l \in cfg_trg
          IN  /\ sts_trg <=> hit
              /\ sts_run' <=> hit
              /\ hit => ptr_cur' = cfg_off
              /\ (cfg_trg = {}) => ~sts_run']_vars

\* an engine that has run before and is idle again sees a masked trigger
\* while ptr_cur differs from cfg_off
C14_Witness ==
  ~sts_run /\ sto_vld /\ ~ctl_rst /\ trg /\ ptr_cur # cfg_off

\* C15 (as stated): for every CW bit ptr_cur, cfg_stp and cfg_siz, with
\* next = ptr_cur + (cfg_stp + 1), one pointer step gives
\* next - (cfg_siz + 1) when next >= cfg_siz + 1 and next otherwise, cut to
\* CW bits, and the code's sign test agrees with that comparison.
C15_StepReference ==
  [][StepTick
       => LET next == ptr_cur + (cfg_stp + 1)
          IN  /\ ptr_nxt_sub_neg <=> next < cfg_siz + 1
              /\ ptr_cur' = IF next >= cfg_siz + 1
                              THEN (next - (cfg_siz + 1)) % PtrRange
                              ELSE next % PtrRange]_vars

\* C15 (amended): the same for the inputs with
\* next - (cfg_siz + 1) < 2^CW, among them every input with
\* ptr_cur <= cfg_siz.
C15_StepReferenceInRange ==
  [][(StepTick /\ ptr_cur + (cfg_stp + 1) - (cfg_siz + 1) < PtrRange)
       => LET next == ptr_cur + (cfg_stp + 1)
          IN  /\ ptr_cur <= cfg_siz => next - (cfg_siz + 1) < PtrRange
              /\ ptr_nxt_sub_neg <=> next < cfg_siz + 1
              /\ ptr_cur' = IF next >= cfg_siz + 1
                              THEN (next - (cfg_siz + 1)) % PtrRange
                              ELSE next % PtrRange]_vars

\* a step from a ptr_cur above cfg_siz that took the reduced value
C15_Witness ==
  /\ h_n = 1 /\ h_base > cfg_siz /\ cfg_stp > 0
  /\ h_base + (cfg_stp + 1) - (cfg_siz + 1) < PtrRange
  /\ ptr_cur = h_base + (cfg_stp + 1) - (cfg_siz + 1)

\* C16: burst period length: in a burst run with constant configuration and
\* no reset, cnt_bln reads cfg_bln right after a start event and one less
\* after each further clock edge, the next start event fires on the edge
\* that finds it zero, cfg_bln + 1 edges after the previous one; with
\* cfg_bln = 0 every edge of the run is a start event.
C16_BurstPeriod ==
  [][(Tick /\ h_clean /\ cfg_ben /\ ~ctl_rst)
       => /\ cnt_bln = cfg_bln - h_age
          /\ sts_trg <=> (h_age = cfg_bln)
          /\ sts_trg => cnt_bln' = cfg_bln
          /\ ~sts_trg => cnt_bln' = cnt_bln - 1
          /\ (cfg_bln = 0) => sts_trg]_vars

\* the second period of a burst with the longest period expires
C16_Witness ==
  /\ h_clean /\ cfg_ben /\ ~ctl_rst /\ cfg_bln = MaxBln
  /\ h_per >= 2 /\ h_age = cfg_bln /\ sts_trg

\* C17: configuration is latched only at use: on a burst mode clock edge
\* without reset, cnt_bnm takes cfg_bnm only at the arming start event and
\* cnt_bln takes cfg_bln only at a start event; on an edge without start
\* event cnt_bnm is kept and cnt_bln counts down by sts_run, and at a period
\* restart cnt_bnm counts down by one (or is kept, cfg_inf), whatever
\* cfg_bnm and cfg_bln have been changed to in the meantime.
C17_LatchedAtUse ==
  [][(Tick /\ cfg_ben /\ ~ctl_rst)
       => /\ ~sts_trg
               => /\ cnt_bnm' = cnt_bnm
                  /\ cnt_bln' = (cnt_bln - (IF sts_run THEN 1 ELSE 0)) % (2 ^ BLN_W)
          /\ (sts_trg /\ sts_run)
               => /\ cnt_bnm' = (cnt_bnm - (IF cfg_inf THEN 0 ELSE 1)) % (2 ^ BNM_W)
                  /\ cnt_bln' = cfg_bln
          /\ (sts_trg /\ ~sts_run)
               => /\ cnt_bnm' = cfg_bnm
                  /\ cnt_bln' = cfg_bln]_vars

\* in the middle of a burst period both cfg_bln and cfg_bnm have been
\* lowered below the values the counters still hold
C17_Witness ==
  /\ sts_run /\ cfg_ben /\ ~ctl_rst /\ ~sts_trg
  /\ cnt_bln > cfg_bln /\ cnt_bnm > cfg_bnm /\ cnt_bnm <= MaxBnm

\* C18: phase range: in a run with constant configuration and no reset
\* since its arming start event, with cfg_off <= cfg_siz and
\* cfg_stp <= cfg_siz, ptr_cur never exceeds cfg_siz.
C18_PhaseRange ==
  (h_clean /\ cfg_off <= cfg_siz /\ cfg_stp <= cfg_siz) => ptr_cur <= cfg_siz

\* a periodic run has stepped past the end of a table shorter than the
\* pointer range and wrapped to a pointer below its start offset
C18_Witness ==
  /\ h_clean /\ ~cfg_ben /\ cfg_off <= cfg_siz /\ cfg_stp <= cfg_siz
  /\ cfg_siz + 1 < PtrRange /\ cfg_stp > 0 /\ ptr_cur < cfg_off

\* C19 (as stated): re-arming after a finished burst: when a finite burst
\* run with constant configuration and no reset ends at a period expiry it
\* leaves both counters non-zero (cnt_bnm wrapped below zero,
\* cnt_bln = cfg_bln); the next masked trigger arms the engine again, and
\* the new run starts cfg_bnm + 1 periods of cfg_bln + 1 clock edges and
\* then ends, like the first.
C19_RearmNonZero ==
  [][(Tick /\ ~ctl_rst)
       => /\ (h_clean /\ cfg_ben /\ ~cfg_inf /\ sts_trg /\ ~sts_run')
               => /\ h_done'
                  /\ cnt_bnm' = (2 ^ BNM_W) - 1 /\ cnt_bln' = cfg_bln
                  /\ cnt_bnm' # 0 /\ cnt_bln' # 0
          /\ (h_done /\ ~sts_run)
               => /\ cnt_bnm = (2 ^ BNM_W) - 1 /\ cnt_bln = cfg_bln
                  /\ cnt_bnm # 0 /\ cnt_bln # 0
                  /\ sts_run' <=> trg
                  /\ trg => (cnt_bnm' = cfg_bnm /\ cnt_bln' = cfg_bln)
          /\ (h_done /\ sts_run)
               => /\ h_clean /\ cfg_ben /\ ~cfg_inf
                  /\ h_per <= cfg_bnm + 1
                  /\ sts_trg <=> (h_age = cfg_bln)
                  /\ sts_trg => (sts_run' <=> h_per < cfg_bnm + 1)
                  /\ ~sts_trg => sts_run']_vars

\* C19 (amended): the same, with cnt_bnm left non-zero (wrapped below zero)
\* and cnt_bln left at cfg_bln, which is zero when cfg_bln is.
C19_Rearm ==
  [][(Tick /\ ~ctl_rst)
       => /\ (h_clean /\ cfg_ben /\ ~cfg_inf /\ sts_trg /\ ~sts_run')
               => /\ h_done'
                  /\ cnt_bnm' = (2 ^ BNM_W) - 1 /\ cnt_bln' = cfg_bln
                  /\ cnt_bnm' # 0
          /\ (h_done /\ ~sts_run)
               => /\ cnt_bnm = (2 ^ BNM_W) - 1 /\ cnt_bln = cfg_bln
                  /\ cnt_bnm # 0
                  /\ sts_run' <=> trg
                  /\ trg => (cnt_bnm' = cfg_bnm /\ cnt_bln' = cfg_bln)
          /\ (h_done /\ sts_run)
               => /\ h_clean /\ cfg_ben /\ ~cfg_inf
                  /\ h_per <= cfg_bnm + 1
                  /\ sts_trg <=> (h_age = cfg_bln)
                  /\ sts_trg => (sts_run' <=> h_per < cfg_bnm + 1)
                  /\ ~sts_trg => sts_run']_vars

\* the last period of a re-armed run of the longest burst expires
C19_Witness ==
  /\ h_done /\ sts_run /\ ~ctl_rst
  /\ cfg_bnm = MaxBnm /\ cfg_bln = MaxBln
  /\ h_per = cfg_bnm + 1 /\ h_age = cfg_bln /\ sts_trg

\* C20: completeness flag of CStreamSettings: after construction and every
\* sequence of calls, isSetted() holds if and only if every setter of the
\* build has been called since the last reset() or the construction;
\* reset() clears every flag and leaves every stored value as it was;
\* writeToFile() returns false whenever isSetted() is false.
C20_CompletenessFlag ==
  [][/\ isSetted <=> (h_set = Fields)
     /\ isSetted' <=> (h_set' = Fields)
     /\ reset => ((\A f \in Fields : ~m_B'[f]) /\ ~isSetted' /\ m_val' = m_val)
     /\ (writeToFile /\ ~isSetted) => ret' = "false"]_vars

\* setters were called, then reset(), then writeToFile() refused: the
\* flags are down and the stored values are still the ones set
C20_Witness ==
  /\ h_set = {} /\ ~isSetted /\ ret = "false"
  /\ m_val["host"] # "" /\ m_val["port"] # "" /\ m_val["protocol"] = UDP
  /\ m_val["samples"] = 4096 /\ m_val["calib"]

====
